---- MODULE Spec2Model ----
(***************************************************************************)
(* Model of display_monitor.py: a background sampler thread                *)
(* (update_metrics_loop / get_metrics) that rebinds the module global      *)
(* metrics_data once per pass, and the render loop of main() that reads    *)
(* that global twice per frame (width pass, draw pass) and pushes the      *)
(* composed image to the ST7789 display.                                   *)
(*                                                                         *)
(* Representation choices:                                                 *)
(*  - Python lists of dicts live in `heap`, indexed by an object id;       *)
(*    metrics_data, the renderer's loop iterator and the sampler's pending *)
(*    return value hold ids, so aliasing is what it is in CPython.         *)
(*  - An optional value (None or v) is <<>> or <<v>>.                      *)
(*  - A float read from a thermal file is kept as its millidegree integer  *)
(*    (value = milli / 1000); memory sizes are in KiB (value = KiB / 1024  *)
(*    MB); cpu_percent is in tenths of a percent.                          *)
(*  - Clock readings are in milliseconds; scroll_offset is kept in         *)
(*    hundredths of a scroll unit (scroll_offset_c = elapsed ms).          *)
(*  - draw.textlength adds up the advances of the text's glyphs in         *)
(*    DejaVuSans-Bold.ttf at 22 px and the kerning of neighbouring glyphs, *)
(*    as the layout engine of the installed Pillow does; a length (size_x) *)
(*    is kept in 1/64 pixel (value = length / 64).                         *)
(*  - Texts are strings; the one character outside ASCII, the degree sign, *)
(*    is written as DegreeSign.  File contents are sequences of code       *)
(*    points.                                                              *)
(***************************************************************************)
EXTENDS Integers, Sequences, FiniteSets, TLC

\* ---------------------------------------------------------------- bounds

\* time.time() reads start_time, start_time + 250, ..., start_time +
\* MaxClock * 250 ms
MaxClock == 0

\* ------------------------------------------------------ program constants

\* disp = ST7789(width = 320, ...)
DispWidth == 320
font_height == 22
line_padding == 2
\* (variant) the padding is left out of the line advance
line_height_NoPadding == font_height
line_height == font_height + line_padding

None == <<>>
Some(v) == <<v>>

\* ------------------------------------------------------------ formatting

Digit(d) == ToString(d)

RECURSIVE Pad(_, _)
\* f"{n:0kd}" for n >= 0
Pad(n, k) ==
    IF k <= 1 /\ n < 10 THEN Digit(n)
    ELSE Pad(n \div 10, k - 1) \o Digit(n % 10)

RECURSIVE BitLength(_)
BitLength(n) == IF n = 0 THEN 0 ELSE 1 + BitLength(n \div 2)

RECURSIVE DoubleDir(_, _, _, _)
\* num / den as a Python float: binary long division up to the 53
\* significant bits of a double, then round-to-nearest-even.  rem is the
\* remainder so far, bits the significant bits produced, last the latest
\* bit.  The result says where the float lies: 1 above the exact quotient,
\* -1 below it, 0 on it.
DoubleDir(rem, den, bits, last) ==
    IF rem = 0 THEN 0
    ELSE IF bits = 53
    THEN IF 2 * rem > den THEN 1
         ELSE IF 2 * rem < den THEN -1
         ELSE IF last = 1 THEN 1 ELSE -1
    ELSE LET b == IF 2 * rem >= den THEN 1 ELSE 0
         IN  DoubleDir(2 * rem - den * b, den,
                       IF bits > 0 \/ b = 1 THEN bits + 1 ELSE 0, b)

\* the tenths ".1f" prints for the float num / den, num >= 0, den > 0:
\* the float's exact value rounded to one decimal, half to even.  At a
\* decimal tie of num / den the float decides: it lies above or below the
\* tie unless the quotient is a binary fraction.
RoundTenths(num, den) ==
    LET q == num * 10
        n == q \div den
        rem == q % den
        d == DoubleDir(num % den, den, BitLength(num \div den), (num \div den) % 2)
    IN  IF 2 * rem > den THEN n + 1
        ELSE IF 2 * rem < den THEN n
        ELSE IF d > 0 THEN n + 1
        ELSE IF d < 0 THEN n
        ELSE IF n % 2 = 0 THEN n ELSE n + 1

\* f"{num / den:.1f}"
Fmt1(num, den) ==
    LET a == IF num < 0 THEN -num ELSE num
        t == RoundTenths(a, den)
    IN  (IF num < 0 THEN "-" ELSE "") \o ToString(t \div 10) \o "." \o Digit(t % 10)

HexChars == <<"0", "1", "2", "3", "4", "5", "6", "7",
              "8", "9", "A", "B", "C", "D", "E", "F">>

\* f"{b:02X}" for one byte
Hex2(b) == HexChars[(b \div 16) + 1] \o HexChars[(b % 16) + 1]

\* raw_mac = f"{uuid.getnode():012X}"; mac = ":".join(raw_mac[i:i+2] ...)
\* node is the 48-bit integer given as its six bytes, most significant first
FormatMac(node) ==
    Hex2(node[1]) \o ":" \o Hex2(node[2]) \o ":" \o Hex2(node[3]) \o ":" \o
    Hex2(node[4]) \o ":" \o Hex2(node[5]) \o ":" \o Hex2(node[6])

\* datetime.now().strftime("%d.%m.%Y %H:%M:%S"); the C library's %Y does
\* not pad the year
Strftime(t) ==
    Pad(t.day, 2) \o "." \o Pad(t.month, 2) \o "." \o ToString(t.year) \o " " \o
    Pad(t.hour, 2) \o ":" \o Pad(t.minute, 2) \o ":" \o Pad(t.second, 2)

\* ------------------------------------------------------------- int(str)

\* A file's text is the sequence of the code points f.read() returns.

\* the zero digits of the decimal digit runs of Unicode 14 (category Nd),
\* each followed by its digits 1 to 9; int() takes them all
DigitZeros ==
    {48, 1632, 1776, 1984, 2406, 2534, 2662, 2790, 2918, 3046, 3174, 3302,
     3430, 3558, 3664, 3792, 3872, 4160, 4240, 6112, 6160, 6470, 6608,
     6784, 6800, 6992, 7088, 7232, 7248, 42528, 43216, 43264, 43472, 43504,
     43600, 44016, 65296, 66720, 68912, 69734, 69872, 69942, 70096, 70384,
     70736, 70864, 71248, 71360, 71472, 71904, 72016, 72784, 73040, 73120,
     92768, 92864, 93008, 120782, 120792, 120802, 120812, 120822, 123200,
     123632, 125264, 130032}
IsDigit(c) == \E z \in DigitZeros : c \in z..(z + 9)
DigitVal(c) == c - (CHOOSE z \in DigitZeros : c \in z..(z + 9))

\* str.isspace(): tab to carriage return, the four separators, space, NEL,
\* no-break space and the Unicode space separators
IsSpace(c) ==
    c \in (9..13) \cup (28..32) \cup {133, 160, 5760} \cup (8192..8202)
          \cup {8232, 8233, 8239, 8287, 12288}

RECURSIVE LStrip(_)
LStrip(cs) == IF cs # <<>> /\ IsSpace(Head(cs)) THEN LStrip(Tail(cs)) ELSE cs

RECURSIVE RStrip(_)
RStrip(cs) ==
    IF cs # <<>> /\ IsSpace(cs[Len(cs)]) THEN RStrip(SubSeq(cs, 1, Len(cs) - 1))
    ELSE cs

\* str.strip()
Strip(cs) == RStrip(LStrip(cs))

RECURSIVE DigitsValue(_, _)
\* the value of the digits of cs, underscores skipped
DigitsValue(cs, acc) ==
    IF cs = <<>> THEN acc
    ELSE IF Head(cs) = 95 THEN DigitsValue(Tail(cs), acc)
    ELSE DigitsValue(Tail(cs), acc * 10 + DigitVal(Head(cs)))

\* int(text): Some(value), or None for ValueError.  After the surrounding
\* blanks are dropped: an optional sign (43 "+", 45 "-"), then decimal
\* digits, with single underscores (95) allowed between two digits.
ParseInt(cs) ==
    LET txt == Strip(cs)
        neg == txt # <<>> /\ Head(txt) = 45
        body == IF txt # <<>> /\ Head(txt) \in {43, 45} THEN Tail(txt) ELSE txt
        n == Len(body)
    IN  IF /\ n > 0
           /\ \A i \in 1..n :
                 \/ IsDigit(body[i])
                 \/ /\ body[i] = 95
                    /\ i > 1 /\ i < n
                    /\ IsDigit(body[i - 1]) /\ IsDigit(body[i + 1])
        THEN Some(IF neg THEN -DigitsValue(body, 0) ELSE DigitsValue(body, 0))
        ELSE None

\* ------------------------------------------------- collaborator outcomes

\* socket.socket / sock.connect / sock.getsockname: each may raise;
\* addr is the local endpoint address when all three succeed
LocalAddrs == {"192.168.1.10"}
SocketOutcomes ==
    {[socket |-> FALSE, connect |-> FALSE, getsockname |-> FALSE, addr |-> ""],
     [socket |-> TRUE, connect |-> FALSE, getsockname |-> FALSE, addr |-> ""],
     [socket |-> TRUE, connect |-> TRUE, getsockname |-> FALSE, addr |-> ""]}
    \cup {[socket |-> TRUE, connect |-> TRUE, getsockname |-> TRUE, addr |-> a] :
            a \in LocalAddrs}

\* uuid.getnode(): 02:4F:FA:1A:00:02, whose text holds the kerned pairs
\* "F:", "FA" and "A:"
NodeIds == {<<2, 79, 250, 26, 0, 2>>}

\* datetime.now()
DateTimes ==
    {[day |-> 12, month |-> 3, year |-> 2024, hour |-> 10, minute |-> 0, second |-> 0]}

\* a thermal zone file: absent, present but not readable by this user, or
\* present with the given text (code points)
ThermalFile(kind, content) == [kind |-> kind, content |-> content]
CpuZoneFiles ==
    {ThermalFile("missing", <<>>),
     ThermalFile("unreadable", <<>>),
     ThermalFile("ok", <<52, 53, 48, 48, 48, 10>>)}       \* "45000\n"
HotspotZoneFiles ==
    {ThermalFile("missing", <<>>),
     ThermalFile("ok", <<>>),
     ThermalFile("ok", <<53, 49, 50, 53, 48, 10>>)}       \* "51250\n"

\* psutil.cpu_percent(interval=1), in tenths of a percent
CpuLoads == {125}

\* psutil.virtual_memory(): used and total, in KiB
MemReadings == {[used |-> 1264230, total |-> 8079564]}

\* time.time(), in milliseconds.  Only differences of readings are used, so
\* the reading taken at start-up is fixed.  No line get_metrics builds is
\* wider than the display in any layout, so a frame of the whole program
\* does not depend on the reading; the draw pass on its own (below) takes
\* elapsed times of either sign.
StartTimes == {250}
ClockMs == {t + k * 250 : t \in StartTimes, k \in 0..MaxClock}

\* -------------------------------------------------------- get_ip_address

IpResult(exc, ip) == [exc |-> exc, ip |-> ip]

\* try: sock = socket(...); sock.connect(...); ip = sock.getsockname()[0]
\* except Exception: ip = "127.0.0.1"
\* finally: sock.close()      -- sock is unbound when socket() itself raised
get_ip_address(o) ==
    LET ok == o.socket /\ o.connect /\ o.getsockname
        ip == IF ok THEN o.addr ELSE "127.0.0.1"
    IN  IF ~o.socket THEN IpResult("UnboundLocalError", "")
        ELSE IpResult("none", ip)

\* ------------------------------------------------------ get_thermal_zone

ZoneResult(exc, val) == [exc |-> exc, val |-> val]

\* try: with open(path) as f: return int(f.read().strip()) / 1000.0
\* except (FileNotFoundError, ValueError): return None
get_thermal_zone(f) ==
    IF f.kind = "missing" THEN ZoneResult("none", None)
    ELSE IF f.kind = "unreadable" THEN ZoneResult("PermissionError", None)
    ELSE ZoneResult("none", ParseInt(f.content))

\* ------------------------------------------------------------ get_metrics

Entry(text) == [text |-> text, size_x |-> 0, font_height |-> 0, pos_x |-> 0]

\* the degree sign U+00B0 of line 112.  TLC keeps the characters of a string
\* in 8 bits when it writes states to disk, so the texts of the model stay
\* in ASCII: the sign is written as the circumflex, which no text of the
\* program holds.
DegreeSign == "^"

\* (variant) the MAC line is placed before the IPv4 line
MetricsList_MacFirst(ip, mac, dt, cpu_t, hs_t, cpu_load, mem) ==
    << Entry("MAC: " \o mac),
       Entry("IPv4: " \o ip),
       Entry(dt),
       Entry("CPU/Hotspot: " \o Fmt1(cpu_t[1], 1000) \o "/" \o Fmt1(hs_t[1], 1000) \o DegreeSign \o "C"),
       Entry("CPU Load: " \o Fmt1(cpu_load, 10) \o "%"),
       Entry("RAM: " \o Fmt1(mem.used, 1024) \o "/" \o Fmt1(mem.total, 1024) \o " MB") >>

\* the list literal of get_metrics; the caller has checked cpu_t and hs_t
MetricsList(ip, mac, dt, cpu_t, hs_t, cpu_load, mem) ==
    << Entry("IPv4: " \o ip),
       Entry("MAC: " \o mac),
       Entry(dt),
       Entry("CPU/Hotspot: " \o Fmt1(cpu_t[1], 1000) \o "/" \o Fmt1(hs_t[1], 1000) \o DegreeSign \o "C"),
       Entry("CPU Load: " \o Fmt1(cpu_load, 10) \o "%"),
       Entry("RAM: " \o Fmt1(mem.used, 1024) \o "/" \o Fmt1(mem.total, 1024) \o " MB") >>

\* (variant) the global starts with a placeholder line instead of empty
PlaceholderSnapshot == <<Entry("Loading...")>>

\* metrics_data = []
EmptySnapshot == <<>>

Texts(list) == [k \in 1..Len(list) |-> list[k].text]

\* every list get_metrics can return, as texts
CompleteSnapshots ==
    { Texts(MetricsList(get_ip_address(o).ip, FormatMac(n), Strftime(t),
                        get_thermal_zone(cf).val, get_thermal_zone(hf).val, c, m)) :
        o \in {o \in SocketOutcomes : get_ip_address(o).exc = "none"},
        n \in NodeIds, t \in DateTimes,
        cf \in {f \in CpuZoneFiles :
                  get_thermal_zone(f).exc = "none" /\ get_thermal_zone(f).val # None},
        hf \in {f \in HotspotZoneFiles :
                  get_thermal_zone(f).exc = "none" /\ get_thermal_zone(f).val # None},
        c \in CpuLoads, m \in MemReadings }


\* Lengths and advances are in FreeType's 26.6 fixed point, 64 to the pixel:
\* font.getlength sums them as integers and returns the sum / 64 as a float.
Px(n) == 64 * n

\* ImageFont.truetype(font_path, font_height) takes the layout engine the
\* installed Pillow offers: RAQM where Pillow is built with libraqm, else
\* BASIC; BASIC_PX is the basic layout of the releases that add the kerning
\* of a pair as its count of whole pixels to the 26.6 advance
Layouts == {"BASIC", "BASIC_PX", "RAQM"}
NoFont == "none"

\* advance widths of DejaVuSans-Bold.ttf (hmtx table, 2048 units per em) for
\* the printable ASCII characters and the degree sign.  Left out are the
\* backquote, the circumflex (which stands for the degree sign) and "f",
\* which RAQM joins with a following f, i or l; no text of the program
\* holds them.
GlyphTable ==
    "'" :> 627 @@
    "i" :> 702 @@ "j" :> 702 @@ "l" :> 702 @@
    " " :> 713 @@
    "/" :> 748 @@ "\\" :> 748 @@ "|" :> 748 @@
    "I" :> 762 @@ "J" :> 762 @@
    "," :> 778 @@ "." :> 778 @@
    ":" :> 819 @@ ";" :> 819 @@
    "-" :> 850 @@
    "!" :> 934 @@
    "(" :> 936 @@ ")" :> 936 @@ "[" :> 936 @@ "]" :> 936 @@
    "t" :> 979 @@
    "r" :> 1010 @@
    "_" :> 1024 @@ DegreeSign :> 1024 @@
    "\"" :> 1067 @@
    "*" :> 1071 @@
    "?" :> 1188 @@
    "z" :> 1192 @@
    "c" :> 1214 @@
    "s" :> 1219 @@
    "L" :> 1305 @@
    "x" :> 1321 @@
    "v" :> 1335 @@ "y" :> 1335 @@
    "k" :> 1362 @@
    "a" :> 1382 @@
    "e" :> 1389 @@
    "T" :> 1397 @@
    "E" :> 1399 @@ "F" :> 1399 @@
    "o" :> 1407 @@
    "$" :> 1425 @@ "0" :> 1425 @@ "1" :> 1425 @@ "2" :> 1425 @@
    "3" :> 1425 @@ "4" :> 1425 @@ "5" :> 1425 @@ "6" :> 1425 @@
    "7" :> 1425 @@ "8" :> 1425 @@ "9" :> 1425 @@
    "h" :> 1458 @@ "n" :> 1458 @@ "u" :> 1458 @@ "{" :> 1458 @@
    "}" :> 1458 @@
    "b" :> 1466 @@ "d" :> 1466 @@ "g" :> 1466 @@ "p" :> 1466 @@
    "q" :> 1466 @@
    "S" :> 1475 @@
    "Y" :> 1483 @@
    "Z" :> 1485 @@
    "P" :> 1501 @@
    "C" :> 1503 @@
    "B" :> 1561 @@
    "R" :> 1577 @@
    "X" :> 1579 @@
    "A" :> 1585 @@ "V" :> 1585 @@
    "K" :> 1587 @@
    "U" :> 1663 @@
    "G" :> 1681 @@
    "D" :> 1700 @@
    "H" :> 1714 @@ "N" :> 1714 @@
    "#" :> 1716 @@ "+" :> 1716 @@ "<" :> 1716 @@ "=" :> 1716 @@
    ">" :> 1716 @@ "~" :> 1716 @@
    "O" :> 1741 @@ "Q" :> 1741 @@
    "&" :> 1786 @@
    "w" :> 1892 @@
    "M" :> 2038 @@
    "@" :> 2048 @@
    "%" :> 2052 @@
    "m" :> 2134 @@
    "W" :> 2259

GlyphUnits(c) == GlyphTable[c]

\* the pairs of these characters in the font's kern table, in font units
KernTable ==
    "-T" :> -301 @@ "-V" :> -149 @@ "-W" :> -92 @@ "-X" :> -167 @@
    "-Y" :> -301 @@ "A," :> 38 @@ "A." :> 38 @@ "A:" :> 38 @@ "A;" :> 38 @@
    "AT" :> -159 @@ "AU" :> -63 @@ "AV" :> -139 @@ "AW" :> -92 @@
    "AY" :> -196 @@ "Av" :> -73 @@ "Ay" :> -73 @@ "BV" :> -83 @@
    "BW" :> -112 @@ "BY" :> -112 @@ "C-" :> 47 @@ "CS" :> 38 @@ "D-" :> 38 @@
    "DY" :> -149 @@ "F," :> -329 @@ "F-" :> -63 @@ "F." :> -301 @@
    "F:" :> -112 @@ "F;" :> -112 @@ "FA" :> -235 @@ "Fa" :> -120 @@
    "Fe" :> -83 @@ "Fo" :> -83 @@ "Fr" :> -131 @@ "Fu" :> -102 @@
    "Fy" :> -112 @@ "GT" :> -36 @@ "GY" :> -45 @@ "K-" :> -178 @@
    "KC" :> -92 @@ "KO" :> -92 @@ "KU" :> -36 @@ "Ke" :> -36 @@
    "Ko" :> -36 @@ "Ku" :> -36 @@ "Ky" :> -131 @@ "LO" :> -73 @@
    "LT" :> -339 @@ "LU" :> -73 @@ "LV" :> -282 @@ "LW" :> -159 @@
    "LY" :> -319 @@ "Ly" :> -139 @@ "O," :> -45 @@ "O-" :> 38 @@
    "O." :> -45 @@ "OA" :> -55 @@ "OV" :> -55 @@ "OX" :> -73 @@
    "OY" :> -73 @@ "P," :> -376 @@ "P-" :> -36 @@ "P." :> -376 @@
    "PA" :> -188 @@ "Pa" :> -55 @@ "Ps" :> -36 @@ "Py" :> 38 @@ "Q-" :> 38 @@
    "R," :> 38 @@ "R." :> 38 @@ "RT" :> -92 @@ "RY" :> -112 @@ "Ry" :> -92 @@
    "SS" :> -92 @@ "T," :> -292 @@ "T-" :> -301 @@ "T." :> -311 @@
    "T:" :> -112 @@ "T;" :> -112 @@ "TA" :> -159 @@ "TT" :> 47 @@
    "Ta" :> -264 @@ "Tc" :> -272 @@ "Te" :> -272 @@ "To" :> -272 @@
    "Tr" :> -225 @@ "Ts" :> -272 @@ "Tu" :> -225 @@ "Tw" :> -225 @@
    "Ty" :> -243 @@ "UA" :> -63 @@ "V," :> -264 @@ "V-" :> -149 @@
    "V." :> -264 @@ "V:" :> -92 @@ "V;" :> -92 @@ "VA" :> -139 @@
    "VO" :> -36 @@ "Va" :> -112 @@ "Ve" :> -112 @@ "Vi" :> -36 @@
    "Vo" :> -112 @@ "Vu" :> -73 @@ "W," :> -167 @@ "W-" :> -92 @@
    "W." :> -167 @@ "W:" :> -63 @@ "W;" :> -63 @@ "WA" :> -92 @@
    "Wa" :> -73 @@ "We" :> -73 @@ "Wo" :> -73 @@ "Wr" :> -36 @@
    "X-" :> -167 @@ "XC" :> -73 @@ "XO" :> -73 @@ "Xe" :> -55 @@
    "Y," :> -339 @@ "Y-" :> -301 @@ "Y." :> -339 @@ "Y:" :> -178 @@
    "Y;" :> -178 @@ "YA" :> -196 @@ "YC" :> -73 @@ "YO" :> -73 @@
    "Ya" :> -188 @@ "Ye" :> -188 @@ "Yo" :> -188 @@ "Yu" :> -149 @@
    "Z-" :> -36 @@ "ay" :> -63 @@ "ke" :> -55 @@ "ko" :> -55 @@
    "r," :> -301 @@ "r." :> -292 @@ "v," :> -167 @@ "v." :> -167 @@
    "w," :> -131 @@ "w." :> -131 @@ "y," :> -159 @@ "y." :> -188

KernUnits(a, b) == IF a \o b \in DOMAIN KernTable THEN KernTable[a \o b] ELSE 0

\* FT_Load_Glyph(FT_LOAD_DEFAULT): the hinted advance of one glyph, in whole
\* pixels
Advance(c) == (GlyphUnits(c) * font_height + 1024) \div 2048

\* the advance of one glyph: hinted under the basic layouts, unhinted
\* (hb-ft loads with FT_LOAD_NO_HINTING) under RAQM
GlyphAdvance(c, font) ==
    IF font = "RAQM" THEN (GlyphUnits(c) * Px(font_height) + 1024) \div 2048
    ELSE Px(Advance(c))

\* a * b / c rounded to the nearest, halves away from zero (FT_MulFix,
\* FT_MulDiv)
MulDiv(a, b, c) ==
    IF a < 0 THEN -(((-a) * b + c \div 2) \div c) ELSE (a * b + c \div 2) \div c

\* FT_Get_Kerning(ft_kerning_default) at font_height pixels per em: the
\* pair's kerning scaled to 26.6, scaled down below 25 pixels per em, then
\* rounded to whole pixels
FTKerning(k) ==
    LET x_scale == (Px(font_height) * 65536) \div 2048
        orig_x  == MulDiv(k, x_scale, 65536)
        scaled  == IF font_height < 25 THEN MulDiv(orig_x, font_height, 25) ELSE orig_x
    IN  64 * ((scaled + 32) \div 64)

\* what the layout adds to the advance of glyph a when glyph b follows
Kerning(a, b, font) ==
    LET k == KernUnits(a, b)
    IN  IF font = "RAQM" THEN (k * Px(font_height) + 1024) \div 2048
        ELSE IF font = "BASIC_PX" THEN FTKerning(k) \div 64
        ELSE FTKerning(k)

RECURSIVE AdvanceSum(_, _, _)
\* the advances of the glyphs of text from the i-th on, each with the
\* kerning against its successor
AdvanceSum(text, i, font) ==
    IF i > Len(text) THEN 0
    ELSE GlyphAdvance(SubSeq(text, i, i), font)
         + (IF i < Len(text)
            THEN Kerning(SubSeq(text, i, i), SubSeq(text, i + 1, i + 1), font)
            ELSE 0)
         + AdvanceSum(text, i + 1, font)

\* the lines get_metrics can build
MetricsTexts == UNION { { t[k] : k \in 1..Len(t) } : t \in CompleteSnapshots }

\* font.getlength depends on the text and the font alone: the lengths of
\* the lines get_metrics can build, measured glyph by glyph and tabulated
MeasuredLengths ==
    [p \in Layouts \X MetricsTexts |-> AdvanceSum(p[2], 1, p[1])] @@ <<>>

\* draw.textlength(text, font), times 64: the tabulated length of a line of
\* get_metrics, the sum of advances and kerning for any other text
TextLength(text, font) ==
    IF <<font, text>> \in DOMAIN MeasuredLengths THEN MeasuredLengths[<<font, text>>]
    ELSE AdvanceSum(text, 1, font)

\* (variant) the centred branch rounds the half pixel up
PosX_CentreRoundsUp(width, scroll_c) ==
    IF width > Px(DispWidth)
    THEN -((scroll_c % (100 * (width + Px(DispWidth)))) \div 6400)
    ELSE (Px(DispWidth) - width + 127) \div 128

\* (variant) the scroll wraps after the line's own width
PosX_WrapsAtWidth(width, scroll_c) ==
    IF width > Px(DispWidth)
    THEN -((scroll_c % (100 * width)) \div 6400)
    ELSE (Px(DispWidth) - width) \div 128

\* (variant) the scroll advances one pixel per millisecond
PosX_PixelPerMs(width, scroll_c) ==
    IF width > Px(DispWidth)
    THEN -(((100 * scroll_c) % (100 * (width + Px(DispWidth)))) \div 6400)
    ELSE (Px(DispWidth) - width) \div 128

\* (variant) the remainder takes the sign of the elapsed time
PosX_SignedRemainder(width, scroll_c) ==
    IF width > Px(DispWidth)
    THEN IF scroll_c < 0
         THEN ((0 - scroll_c) % (100 * (width + Px(DispWidth)))) \div 6400
         ELSE -((scroll_c % (100 * (width + Px(DispWidth)))) \div 6400)
    ELSE (Px(DispWidth) - width) \div 128

\* lines 167-173: x of one line, in pixels.  width is size_x * 64 and
\* scroll_c is scroll_offset * 6400 (64 times the elapsed milliseconds), so
\* that scroll_offset % (width + disp.width) is scroll_c % (100 * (width +
\* Px(DispWidth))) / 6400, and int() takes its whole part
PosX(width, scroll_c) ==
    IF width > Px(DispWidth)
    THEN -((scroll_c % (100 * (width + Px(DispWidth)))) \div 6400)
    ELSE (Px(DispWidth) - width) \div 128

\* ------------------------------------------------------------------ state

VARIABLES
    heap,          \* list object id -> the list's entries (dicts)
    metrics_data,  \* the module global: id of the current list
    s,             \* sampler thread: position, locals of get_metrics, exception
    r,             \* main thread: position and locals of main()
    img,           \* the PIL canvas: the text drawn since the last clear
    last_pass,     \* history: texts of the list the latest finished pass stored
    published,     \* history: update_metrics_loop has assigned metrics_data
    obs            \* history: what happened during the current frame (see NoObs)

vars == <<heap, metrics_data, s, r, img, last_pass, published, obs>>

\* at most three list objects are referenced at once: by the global, by the
\* render loop's iterator and by the sampler's pending return value
ListIds == 0..2
NoList == -1

SamplerIdle ==
    [pc |-> "idle", ip |-> "", mac |-> "", dt |-> "", cpu_t |-> None, hs_t |-> None,
     cpu_load |-> 0, mem |-> [used |-> 0, total |-> 0], ret |-> NoList,
     exc |-> "none", thermal_fail |-> FALSE]

\* frame history: pre = no publish had happened when the frame started;
\* read_pre = none had happened at the frame's second read (line 163);
\* swapped = metrics_data was rebound between the frame's two reads;
\* identical = every publish since the frame started stored texts equal to
\* the texts it replaced
NoObs == [pre |-> FALSE, read_pre |-> FALSE, swapped |-> FALSE, identical |-> TRUE]

Init ==
    /\ heap = [i \in ListIds |-> IF i = 0 THEN EmptySnapshot ELSE <<>>]
    /\ metrics_data = 0
    /\ s = SamplerIdle
    /\ r = [pc |-> "start", font |-> NoFont, start_time |-> 0, scroll_offset |-> 0,
            list |-> NoList, idx |-> 0, y |-> 0]
    /\ img = <<>>
    /\ last_pass = Texts(EmptySnapshot)
    /\ published = FALSE
    /\ obs = NoObs

\* -------------------------------------------------------------- the heap

Referenced(md, rl, sr) == {md, rl, sr} \ {NoList}

\* a list object nobody references is collected
Collect(h, md, rl, sr) ==
    [i \in ListIds |-> IF i \in Referenced(md, rl, sr) THEN h[i] ELSE <<>>]

FreeId == CHOOSE i \in ListIds :
            /\ i \notin Referenced(metrics_data, r.list, s.ret)
            /\ \A j \in ListIds : j < i => j \in Referenced(metrics_data, r.list, s.ret)

BetweenReads == r.pc \in {"measure", "clear", "draw_read"}

InFrame == r.pc \in {"measure_read", "measure", "clear", "draw_read", "draw", "display"}

\* ----------------------------------------------------- sampler (thread)

Crash(exc) == [SamplerIdle EXCEPT !.pc = "crashed", !.exc = exc,
                                  !.thermal_fail = s.thermal_fail]

\* (variant) the pass fills the global's list in place as lines are gathered
SampleIp_InPlace ==
    /\ s.pc = "ip"
    /\ \E o \in SocketOutcomes :
        LET res == get_ip_address(o)
        IN  /\ s' = IF res.exc # "none" THEN Crash(res.exc)
                    ELSE [s EXCEPT !.pc = "mac", !.ip = res.ip]
            /\ heap' = IF res.exc # "none" THEN heap
                       ELSE [heap EXCEPT ![metrics_data] = <<Entry("IPv4: " \o res.ip)>>]
    /\ UNCHANGED <<metrics_data, r, img, last_pass, published, obs>>

\* line 90: ip = get_ip_address()
SampleIp ==
    /\ s.pc = "ip"
    /\ \E o \in SocketOutcomes :
        LET res == get_ip_address(o)
        IN  s' = IF res.exc # "none" THEN Crash(res.exc)
                 ELSE [s EXCEPT !.pc = "mac", !.ip = res.ip]
    /\ UNCHANGED <<heap, metrics_data, r, img, last_pass, published, obs>>

\* lines 91-95: mac from uuid.getnode(), dt from datetime.now()
SampleMacTime ==
    /\ s.pc = "mac"
    /\ \E node \in NodeIds, t \in DateTimes :
        s' = [s EXCEPT !.pc = "cpu_t", !.mac = FormatMac(node), !.dt = Strftime(t)]
    /\ UNCHANGED <<heap, metrics_data, r, img, last_pass, published, obs>>

ThermalFailed(f, res) == f.kind # "ok" \/ res.exc # "none" \/ res.val = None

\* line 98: cpu_t = get_thermal_zone(THERMAL_ZONES["CPU"])
SampleCpuTemp ==
    /\ s.pc = "cpu_t"
    /\ \E f \in CpuZoneFiles :
        LET res == get_thermal_zone(f)
            bad == s.thermal_fail \/ ThermalFailed(f, res)
        IN  s' = IF res.exc # "none"
                 THEN [Crash(res.exc) EXCEPT !.thermal_fail = bad]
                 ELSE [s EXCEPT !.pc = "hs_t", !.cpu_t = res.val, !.thermal_fail = bad]
    /\ UNCHANGED <<heap, metrics_data, r, img, last_pass, published, obs>>

\* line 99: hs_t = get_thermal_zone(THERMAL_ZONES["Hotspot"])
SampleHotspotTemp ==
    /\ s.pc = "hs_t"
    /\ \E f \in HotspotZoneFiles :
        LET res == get_thermal_zone(f)
            bad == s.thermal_fail \/ ThermalFailed(f, res)
        IN  s' = IF res.exc # "none"
                 THEN [Crash(res.exc) EXCEPT !.thermal_fail = bad]
                 ELSE [s EXCEPT !.pc = "cpu_load", !.hs_t = res.val, !.thermal_fail = bad]
    /\ UNCHANGED <<heap, metrics_data, r, img, last_pass, published, obs>>

\* lines 102-105: psutil.cpu_percent(interval=1) (blocks for the interval),
\* psutil.virtual_memory()
SampleLoadMem ==
    /\ s.pc = "cpu_load"
    /\ \E c \in CpuLoads, m \in MemReadings :
        s' = [s EXCEPT !.pc = "build", !.cpu_load = c, !.mem = m]
    /\ UNCHANGED <<heap, metrics_data, r, img, last_pass, published, obs>>

\* (variant) while the render loop iterates the current list, get_metrics
\* hands that list back instead of building a new one
BuildList_KeepsListWhileDrawing ==
    /\ s.pc = "build"
    /\ IF s.cpu_t = None \/ s.hs_t = None
       THEN /\ s' = Crash("TypeError")
            /\ UNCHANGED heap
       ELSE IF r.list = metrics_data
            THEN /\ UNCHANGED heap
                 /\ s' = [SamplerIdle EXCEPT !.pc = "publish", !.ret = metrics_data,
                                             !.thermal_fail = s.thermal_fail]
            ELSE /\ heap' = [heap EXCEPT ![FreeId] =
                          MetricsList(s.ip, s.mac, s.dt, s.cpu_t, s.hs_t, s.cpu_load, s.mem)]
                 /\ s' = [SamplerIdle EXCEPT !.pc = "publish", !.ret = FreeId,
                                             !.thermal_fail = s.thermal_fail]
    /\ UNCHANGED <<metrics_data, r, img, last_pass, published, obs>>

\* lines 108-115: format the six texts and return a new list of new dicts;
\* f"{cpu_t:.1f}" raises TypeError when cpu_t (or hs_t) is None
BuildList ==
    /\ s.pc = "build"
    /\ IF s.cpu_t = None \/ s.hs_t = None
       THEN /\ s' = Crash("TypeError")
            /\ UNCHANGED heap
       ELSE /\ heap' = [heap EXCEPT ![FreeId] =
                          MetricsList(s.ip, s.mac, s.dt, s.cpu_t, s.hs_t, s.cpu_load, s.mem)]
            /\ s' = [SamplerIdle EXCEPT !.pc = "publish", !.ret = FreeId,
                                        !.thermal_fail = s.thermal_fail]
    /\ UNCHANGED <<metrics_data, r, img, last_pass, published, obs>>

\* (variant) `if not metrics_data: metrics_data = get_metrics()`: only the
\* first pass is stored
Publish_OnlyIfEmpty ==
    /\ s.pc = "publish"
    /\ metrics_data' = IF heap[metrics_data] = <<>> THEN s.ret ELSE metrics_data
    /\ heap' = Collect(heap, metrics_data', r.list, NoList)
    /\ s' = [s EXCEPT !.pc = "sleep", !.ret = NoList]
    /\ last_pass' = Texts(heap[s.ret])
    /\ published' = TRUE
    /\ obs' = IF InFrame
              THEN [obs EXCEPT !.identical =
                        @ /\ Texts(heap[s.ret]) = Texts(heap[metrics_data]),
                               !.swapped = @ \/ BetweenReads]
              ELSE obs
    /\ UNCHANGED <<r, img>>

\* line 124: metrics_data = <the returned list>  (one STORE_GLOBAL)
Publish ==
    /\ s.pc = "publish"
    /\ metrics_data' = s.ret
    /\ heap' = Collect(heap, s.ret, r.list, NoList)
    /\ s' = [s EXCEPT !.pc = "sleep", !.ret = NoList]
    /\ last_pass' = Texts(heap[s.ret])
    /\ published' = TRUE
    /\ obs' = IF InFrame
              THEN [obs EXCEPT !.identical =
                        @ /\ Texts(heap[s.ret]) = Texts(heap[metrics_data]),
                               !.swapped = @ \/ BetweenReads]
              ELSE obs
    /\ UNCHANGED <<r, img>>

\* line 125: time.sleep(1), then the next pass of while True
Sleep ==
    /\ s.pc = "sleep"
    /\ s' = [SamplerIdle EXCEPT !.pc = "ip"]
    /\ UNCHANGED <<heap, metrics_data, r, img, last_pass, published, obs>>

SamplerNext ==
    \/ SampleIp
    \/ SampleMacTime
    \/ SampleCpuTemp
    \/ SampleHotspotTemp
    \/ SampleLoadMem
    \/ BuildList
    \/ Publish
    \/ Sleep

\* --------------------------------------------------- main (render loop)

\* line 132: threading.Thread(target=update_metrics_loop, daemon=True).start()
MainStartThread ==
    /\ r.pc = "start"
    /\ r' = [r EXCEPT !.pc = "setup"]
    /\ s' = [s EXCEPT !.pc = "ip"]
    /\ UNCHANGED <<heap, metrics_data, img, last_pass, published, obs>>

\* lines 135-148: disp.begin(), canvas, font, start_time = time.time()
MainSetup ==
    /\ r.pc = "setup"
    /\ \E font \in Layouts, t \in StartTimes :
          r' = [r EXCEPT !.pc = "time", !.font = font, !.start_time = t]
    /\ UNCHANGED <<heap, metrics_data, s, img, last_pass, published, obs>>

\* line 152: scroll_offset = (time.time() - start_time) * 10
RenderTime ==
    /\ r.pc = "time"
    /\ \E t \in ClockMs :
        r' = [r EXCEPT !.pc = "measure_read", !.scroll_offset = t - r.start_time]
    /\ obs' = [NoObs EXCEPT !.pre = ~published]
    /\ UNCHANGED <<heap, metrics_data, s, img, last_pass, published>>

\* (variant) the frame waits until the sampler has just stored a fresh list
RenderMeasureRead_Waits ==
    /\ r.pc = "measure_read"
    /\ s.pc = "sleep"
    /\ r' = [r EXCEPT !.pc = "measure", !.list = metrics_data, !.idx = 1]
    /\ UNCHANGED <<heap, metrics_data, s, img, last_pass, published, obs>>

\* line 155: `for entry in metrics_data` loads the global and takes its iterator
RenderMeasureRead ==
    /\ r.pc = "measure_read"
    /\ r' = [r EXCEPT !.pc = "measure", !.list = metrics_data, !.idx = 1]
    /\ UNCHANGED <<heap, metrics_data, s, img, last_pass, published, obs>>

\* line 156: entry["size_x"] = draw.textlength(entry["text"], font)
RenderMeasureEntry ==
    /\ r.pc = "measure"
    /\ r.idx <= Len(heap[r.list])
    /\ r' = [r EXCEPT !.idx = @ + 1]
    /\ UNCHANGED <<metrics_data, s, img, last_pass, published, obs>>
    /\ heap' = [heap EXCEPT ![r.list][r.idx].size_x =
                                 TextLength(heap[r.list][r.idx].text, r.font)]

\* line 155: the iterator is exhausted and dropped
RenderMeasureEnd ==
    /\ r.pc = "measure"
    /\ r.idx > Len(heap[r.list])
    /\ r' = [r EXCEPT !.pc = "clear", !.list = NoList, !.idx = 0]
    /\ heap' = Collect(heap, metrics_data, NoList, s.ret)
    /\ UNCHANGED <<metrics_data, s, img, last_pass, published, obs>>

\* lines 159-162: draw.rectangle(... fill black); y = 0
RenderClear ==
    /\ r.pc = "clear"
    /\ img' = <<>>
    /\ r' = [r EXCEPT !.pc = "draw_read", !.y = 0]
    /\ UNCHANGED <<heap, metrics_data, s, last_pass, published, obs>>

\* line 163: `for entry in metrics_data` loads the global again
RenderDrawRead ==
    /\ r.pc = "draw_read"
    /\ r' = [r EXCEPT !.pc = "draw", !.list = metrics_data, !.idx = 1]
    /\ obs' = [obs EXCEPT !.read_pre = ~published]
    /\ UNCHANGED <<heap, metrics_data, s, img, last_pass, published>>

\* lines 164-176: position and draw one line, advance y
RenderDrawEntry ==
    /\ r.pc = "draw"
    /\ r.idx <= Len(heap[r.list])
    /\ LET entry == heap[r.list][r.idx]
           text  == entry.text
           width == entry.size_x
           x     == PosX(width, 64 * r.scroll_offset)
       IN  img' = Append(img, [text |-> text, x |-> x, y |-> r.y])
    /\ r' = [r EXCEPT !.idx = @ + 1, !.y = @ + line_height]
    /\ UNCHANGED <<heap, metrics_data, s, last_pass, published, obs>>

\* line 163: the iterator is exhausted and dropped
RenderDrawEnd ==
    /\ r.pc = "draw"
    /\ r.idx > Len(heap[r.list])
    /\ r' = [r EXCEPT !.pc = "display", !.list = NoList, !.idx = 0]
    /\ heap' = Collect(heap, metrics_data, NoList, s.ret)
    /\ UNCHANGED <<metrics_data, s, img, last_pass, published, obs>>

\* (variant) every frame starts another sampler thread, which begins a pass
RenderDisplay_StartsThread ==
    /\ r.pc = "display"
    /\ r' = [r EXCEPT !.pc = "time", !.scroll_offset = 0, !.y = 0]
    /\ s' = [SamplerIdle EXCEPT !.pc = "ip"]
    /\ heap' = Collect(heap, metrics_data, NoList, NoList)
    /\ obs' = NoObs
    /\ UNCHANGED <<metrics_data, img, last_pass, published>>

\* line 179: disp.display(img), then the next frame of while True
RenderDisplay ==
    /\ r.pc = "display"
    /\ r' = [r EXCEPT !.pc = "time", !.scroll_offset = 0, !.y = 0]
    /\ obs' = NoObs
    /\ UNCHANGED <<heap, metrics_data, s, img, last_pass, published>>

RenderNext ==
    \/ MainStartThread
    \/ MainSetup
    \/ RenderTime
    \/ RenderMeasureRead
    \/ RenderMeasureEntry
    \/ RenderMeasureEnd
    \/ RenderClear
    \/ RenderDrawRead
    \/ RenderDrawEntry
    \/ RenderDrawEnd
    \/ RenderDisplay

Next == SamplerNext \/ RenderNext

Spec == Init /\ [][Next]_vars

\* the main thread is scheduled again and again (it never blocks: no lock,
\* no wait on the sampler); nothing is assumed of the sampler thread
FairSpec == Spec /\ WF_vars(RenderNext)

\* --------------------------------------------- the draw pass on its own
\* lines 159-176 applied to lists whose widths draw.textlength has already
\* stored, for chosen widths, list lengths and elapsed times

MaxLines == 3
MaxElapsedSteps == 4

\* lengths draw.textlength can return, in 1/64 pixel: below, at and above
\* disp.width, whole pixels and not (233 20/64, 320 1/64)
LayoutWidths == {0, Px(180), Px(233) + 20, Px(320), Px(320) + 1, Px(500)}

\* (time.time() - start_time) in ms: quarter periods of a 500 px line, whole
\* and half scroll units, before and after start_time
LayoutElapsed ==
    { k * 20500 + d : k \in (0 - MaxElapsedSteps)..MaxElapsedSteps, d \in {0, 50} }

\* the text of the k-th line of a list: every line of a list has its own
\* text, so that the place a line is drawn at tells which entry it is
LineText(k) == "line " \o ToString(k)

\* an entry after line 156 has run on it.  The draw pass reads the stored
\* size_x (line 165) and never measures, so the length is an input here: it
\* stands for what the font in use returned for the entry's text.
MeasuredEntry(text, w) == [Entry(text) EXCEPT !.size_x = w]

LayoutLists ==
    UNION { { [k \in 1..n |-> MeasuredEntry(LineText(k), ws[k])] :
                ws \in [1..n -> LayoutWidths] } : n \in 0..MaxLines }

\* the main thread has finished the width pass of a frame (line 156); the
\* sampler thread sleeps after the publish that stored the list
LayoutInit ==
    /\ \E list \in LayoutLists :
          /\ heap = [i \in ListIds |-> IF i = 0 THEN list ELSE <<>>]
          /\ last_pass = Texts(list)
    /\ metrics_data = 0
    /\ s = [SamplerIdle EXCEPT !.pc = "sleep"]
    /\ \E font \in Layouts, e \in LayoutElapsed :
          r = [pc |-> "clear", font |-> font, start_time |-> 250, scroll_offset |-> e,
               list |-> NoList, idx |-> 0, y |-> 0]
    /\ img = <<>>
    /\ published = TRUE
    /\ obs = NoObs

LayoutNext ==
    \/ RenderClear
    \/ RenderDrawRead
    \/ RenderDrawEntry
    \/ RenderDrawEnd

LayoutSpec == LayoutInit /\ [][LayoutNext]_vars

\* ================================================================ claims

\* the lists the render loop can reach: the global's and its iterator's
PublishedIds == {metrics_data} \cup ({r.list} \ {NoList})

SamplerAssembling == s.pc \in {"mac", "cpu_t", "hs_t", "cpu_load", "build"}

ReadStep ==
    \/ r.pc = "measure_read" /\ r'.pc = "measure"
    \/ r.pc = "draw_read" /\ r'.pc = "draw"

\* C1: every read of metrics_data by the render loop returns the initial
\* empty list or a complete six-line list as returned by a finished
\* get_metrics() pass, and no list the render loop can reach is ever a
\* partly filled one.
C1_NoPartialSnapshot ==
    /\ [][ReadStep =>
            (Len(heap'[r'.list]) = 0 \/ Texts(heap'[r'.list]) \in CompleteSnapshots)]_vars
    /\ [](\A i \in PublishedIds : Len(heap[i]) \in {0, 6})

\* the render loop iterates a complete list while the sampler is mid-pass
C1_Witness ==
    /\ SamplerAssembling
    /\ r.pc \in {"measure", "draw"}
    /\ r.idx = 1
    /\ Len(heap[r.list]) = 6

\* C2: a submitted frame has used one snapshot: metrics_data was not
\* rebound between the width pass and the draw pass, and every drawn line
\* sits at the position its measured width gives.
C2_FrameUsesOneSnapshot ==
    r.pc = "display" =>
        /\ ~obs.swapped
        /\ \A k \in 1..Len(img) :
              img[k].x = PosX(TextLength(img[k].text, r.font), 64 * r.scroll_offset)

\* C3: a pass in which a thermal file was missing, unreadable or invalid is
\* not aborted and goes on to publish six lines.
C3_ThermalFailureKeepsCycle ==
    s.thermal_fail =>
        /\ s.pc # "crashed"
        /\ (s.pc = "publish" => Len(heap[s.ret]) = 6)

\* C4: the sampling loop never stops, whatever the collaborators return.
C4_SamplerNeverStops == s.pc # "crashed"

\* C5: get_ip_address never raises; the ip it returns is the local endpoint
\* address or, on any failure, "127.0.0.1".
C5_IpLookupNeverRaises ==
    /\ s.exc # "UnboundLocalError"
    /\ (s.pc = "mac" => s.ip \in LocalAddrs \cup {"127.0.0.1"})

\* C6: no step changes any field of any line of a list that is
\* (and stays) reachable through metrics_data or the render loop.
C6_SnapshotImmutable ==
    [][\A i \in ListIds :
          (i \in PublishedIds /\ i \in PublishedIds') => heap'[i] = heap[i]]_vars

\* C7: every read of metrics_data by the render loop returns the list the
\* latest finished pass stored: the same texts in the same order.
C7_ReadReturnsLastPublished ==
    [][ReadStep => (r'.list = metrics_data /\ Texts(heap'[r'.list]) = last_pass')]_vars

\* the draw pass has read a list that replaced a different one during this
\* frame
C7_Witness ==
    /\ r.pc = "draw"
    /\ obs.swapped /\ ~obs.identical
    /\ r.list = metrics_data
    /\ Texts(heap[r.list]) = last_pass

\* the frame main() draws for these texts at this scroll offset when nothing
\* is published while it is drawn
ExpectedFrame(texts, font, scroll_c) ==
    [k \in 1..Len(texts) |->
        [text |-> texts[k], x |-> PosX(TextLength(texts[k], font), scroll_c),
         y |-> (k - 1) * line_height]]

\* C8: a frame during which only identical snapshots were re-published is
\* the frame drawn without the re-publish.
C8_IdenticalRepublishInvisible ==
    (r.pc = "display" /\ obs.identical) =>
        img = ExpectedFrame(Texts(heap[metrics_data]), r.font, 64 * r.scroll_offset)

\* C9 as stated: a frame that started before the first publish reads zero
\* lines in both of its passes, draws no text and submits the cleared canvas.
C9_FrameStartedBeforePublishIsEmpty ==
    obs.pre =>
        /\ (r.pc \in {"measure", "draw"} => heap[r.list] = <<>>)
        /\ (r.pc = "display" => img = <<>>)

\* C9 as amended: before the first publish the global is the empty list,
\* and a frame whose reads of the global both happened before the first
\* publish iterates zero lines, draws no text and reaches disp.display
\* with the cleared canvas.
C9_ReadsBeforePublishDrawNothing ==
    /\ ~published => heap[metrics_data] = <<>>
    /\ (r.pc = "draw" /\ obs.read_pre) => (heap[r.list] = <<>> /\ img = <<>>)
    /\ (r.pc = "display" /\ obs.read_pre) => img = <<>>

\* an empty frame is about to be submitted although the sampler has
\* published since the frame's reads
C9_Witness ==
    /\ r.pc = "display"
    /\ obs.read_pre
    /\ published
    /\ img = <<>>

\* C10: a frame that has started is always submitted, whatever the sampler
\* does; its draw pass reads the global as it is and draws the lines of the
\* list it read, in order.
C10_FrameAlwaysSubmitted ==
    /\ InFrame ~> (r.pc = "time")
    /\ [][(r.pc = "draw_read" /\ r'.pc = "draw") => r'.list = metrics_data]_vars
    /\ [](r.pc = "draw" =>
            [k \in 1..Len(img) |-> img[k].text]
                = SubSeq(Texts(heap[r.list]), 1, r.idx - 1))

\* a full frame is about to be submitted after the sampler thread has died
C10_Witness ==
    /\ r.pc = "display"
    /\ s.pc = "crashed"
    /\ Len(img) = 6

\* line 165: the width the draw pass reads for the k-th line of the list
\* its loop iterates
DrawnWidth(k) == heap[r.list][k].size_x

\* the draw pass is under way: lines 1 to r.idx - 1 of its list are drawn
DrawStarted == r.pc = "draw"

\* the draw pass has drawn every line of its list
DrawDone == r.pc = "draw" /\ r.idx > Len(heap[r.list])

\* C11: every drawn line whose measured width is at most disp.width sits at
\* x = floor((disp.width - width) / 2), whatever the elapsed time; a line
\* exactly as wide as the display sits at x = 0, and on the 320 px display a
\* 180 px line sits at x = 70.
C11_FittingLineCentred ==
    DrawStarted =>
        \A k \in 1..Len(img) :
            LET w == DrawnWidth(k)
                x == img[k].x
            IN  w <= Px(DispWidth) =>
                    /\ Px(2 * x) <= Px(DispWidth) - w
                    /\ Px(DispWidth) - w < Px(2 * x + 2)
                    /\ (w = Px(DispWidth) => x = 0)
                    /\ ((DispWidth = 320 /\ w = Px(180)) => x = 70)

\* a frame with a 180 px line and a line exactly as wide as the display,
\* both centred at an elapsed time other than zero
C11_Witness ==
    /\ DrawDone
    /\ r.scroll_offset = 41000
    /\ Len(img) = 2
    /\ DrawnWidth(1) = Px(180) /\ img[1].x = 70
    /\ DrawnWidth(2) = Px(320) /\ img[2].x = 0

\* C12: the x of a drawn line wider than disp.width is the x the same line
\* gets width + disp.width scroll units (of 100 ms) later, and earlier.
C12_ScrollPeriodic ==
    DrawStarted =>
        \A k \in 1..Len(img) :
            LET w      == DrawnWidth(k)
                period == 100 * (w + Px(DispWidth))
            IN  w > Px(DispWidth) =>
                    /\ img[k].x = PosX(w, 64 * r.scroll_offset + period)
                    /\ img[k].x = PosX(w, 64 * r.scroll_offset - period)

\* a 500 px line drawn one full period (820 units) after the start is back
\* at the x it had at the start, next to a line of 320 1/64 px (period
\* 640 1/64) that is not
C12_Witness ==
    /\ DrawDone
    /\ r.scroll_offset = 82000
    /\ Len(img) = 2
    /\ DrawnWidth(1) = Px(500) /\ img[1].x = 0
    /\ DrawnWidth(2) = Px(320) + 1 /\ img[2].x = -179

\* C13: a drawn line wider than disp.width sits at x = -offsetPx, where
\* offsetPx is the whole part of (elapsed ms / 100) reduced modulo
\* width + disp.width: elapsed/100 lies in [q*period + offsetPx,
\* q*period + offsetPx + 1) for a whole number q of periods. On the 320 px
\* display a 500 px line sits at x = 0 at elapsed 0 and at x = -410 at
\* elapsed 41 s (offset 410 of period 820).
C13_OverflowScrollsLeft ==
    DrawStarted =>
        \A k \in 1..Len(img) :
            LET w        == DrawnWidth(k)
                period   == w + Px(DispWidth)
                offsetPx == 0 - img[k].x
                e        == r.scroll_offset
            IN  w > Px(DispWidth) =>
                    /\ offsetPx >= 0 /\ Px(offsetPx) < period
                    /\ \E q \in (0 - MaxElapsedSteps - 1)..(MaxElapsedSteps + 1) :
                          /\ 100 * (q * period + Px(offsetPx)) <= Px(e)
                          /\ Px(e) < 100 * (q * period + Px(offsetPx)) + Px(100)
                    /\ ((DispWidth = 320 /\ w = Px(500) /\ e = 0) => img[k].x = 0)
                    /\ ((DispWidth = 320 /\ w = Px(500) /\ e = 41000) => img[k].x = -410)

\* a 500 px line drawn 41.05 s after the start: 410.5 scroll units, offset 410
C13_Witness ==
    /\ DrawDone
    /\ r.scroll_offset = 41050
    /\ Len(img) = 1
    /\ DrawnWidth(1) = Px(500) /\ img[1].x = -410

\* C17: whatever the elapsed time, negative (the wall clock stepped back
\* behind start_time) or not, a drawn line wider than disp.width sits at an
\* x with -(width + disp.width) < x <= 0.
C17_OffsetWithinPeriod ==
    DrawStarted =>
        \A k \in 1..Len(img) :
            DrawnWidth(k) > Px(DispWidth) =>
                /\ img[k].x <= 0
                /\ Px(img[k].x) > 0 - (DrawnWidth(k) + Px(DispWidth))

\* a 500 px line drawn when time.time() is 20.45 s behind start_time
C17_Witness ==
    /\ DrawDone
    /\ r.scroll_offset = -20450
    /\ Len(img) = 1
    /\ DrawnWidth(1) = Px(500) /\ img[1].x = -615

\* C16: the i-th line of the list the draw pass read (counting from 0) is
\* drawn i-th, at y = i * (font_height + line_padding), for lists of every
\* length, whatever the elapsed time and the lines' widths: the i-th drawn
\* line carries the text of the list's i-th entry and sits at the x of that
\* entry's width, and no other entry of the list has this text; when the
\* pass ends, every line of the list is drawn.
C16_LinesStackedInOrder ==
    DrawStarted =>
        /\ \A k \in 1..Len(img) :
              /\ img[k].y = (k - 1) * (font_height + line_padding)
              /\ img[k].text = heap[r.list][k].text
              /\ img[k].x = PosX(DrawnWidth(k), 64 * r.scroll_offset)
              /\ \A j \in 1..Len(heap[r.list]) :
                    heap[r.list][j].text = img[k].text => j = k
        /\ (DrawDone => Len(img) = Len(heap[r.list]))

\* three lines with three texts and three widths, a scrolling one between
\* two centred ones, drawn in list order 24 px apart
C16_Witness ==
    /\ DrawDone
    /\ r.scroll_offset = 20550
    /\ Len(img) = 3
    /\ DrawnWidth(1) = Px(180) /\ DrawnWidth(2) = Px(500) /\ DrawnWidth(3) = 0
    /\ img[1].text = LineText(1) /\ img[1].x = 70 /\ img[1].y = 0
    /\ img[2].text = LineText(2) /\ img[2].x = -205 /\ img[2].y = 24
    /\ img[3].text = LineText(3) /\ img[3].x = 160 /\ img[3].y = 48

\* the steps of one cycle of update_metrics_loop, in program order
CycleOrder == <<"ip", "mac", "cpu_t", "hs_t", "cpu_load", "build", "publish", "sleep">>

PassInProgress == s.pc \in {"ip", "mac", "cpu_t", "hs_t", "cpu_load", "build", "publish"}

\* C14: there is one sampler thread, started once by main(), and its passes
\* never overlap: a pass begins only when the thread has just been started
\* or has slept after its previous publish, never while a pass is in
\* progress; within a cycle the thread gathers all six lines, then stores
\* the list, then sleeps (or dies of an exception); metrics_data is
\* assigned only by the store step of a pass that has built its list.
C14_OneSamplerPassAtATime ==
    /\ [][(s'.pc = "ip" /\ s.pc # "ip") =>
            (~PassInProgress /\ s.pc \in {"idle", "sleep"})]_vars
    /\ [][(s.pc = "idle" /\ s'.pc # "idle") => (r.pc = "start" /\ r'.pc = "setup")]_vars
    /\ [][r'.pc = "start" => r.pc = "start"]_vars
    /\ [][(s'.pc # s.pc /\ s'.pc \notin {"ip", "crashed"}) =>
            \E k \in 1..(Len(CycleOrder) - 1) :
                s.pc = CycleOrder[k] /\ s'.pc = CycleOrder[k + 1]]_vars
    /\ [][(metrics_data' # metrics_data \/ published' # published) =>
            (s.pc = "publish" /\ s'.pc = "sleep" /\ Len(heap[s.ret]) = 6)]_vars

\* a second pass is gathering after the first one was stored and slept on
C14_Witness ==
    /\ s.pc = "hs_t"
    /\ published
    /\ s.ret = NoList
    /\ Len(heap[metrics_data]) = 6

\* a step of the main thread
RendererStep == r' # r \/ img' # img

\* C15: nothing flows from the render loop to the sampler. No step of the
\* main thread after the thread's start changes the sampler's position or
\* locals; the list a pass builds is a new object the render loop cannot
\* reach, made of the pass's own gathered values alone (texts in the fixed
\* order, every size_x 0); nothing touches it until it is stored; the store
\* step stores exactly that list. So the lists stored are a function of the
\* collaborators' outputs, whatever the render loop does, its writes of
\* size_x into the current list included.
C15_NoFlowFromRenderer ==
    /\ [][(RendererStep /\ r.pc # "start") => s' = s]_vars
    /\ [][(s.pc = "build" /\ s'.pc = "publish") =>
            /\ s'.ret \notin PublishedIds
            /\ heap'[s'.ret] =
                 MetricsList(s.ip, s.mac, s.dt, s.cpu_t, s.hs_t, s.cpu_load, s.mem)]_vars
    /\ [][(s.pc = "publish" /\ s'.pc = "publish") => heap'[s.ret] = heap[s.ret]]_vars
    /\ [][(s.pc = "publish" /\ s'.pc = "sleep") =>
            /\ metrics_data' = s.ret
            /\ heap'[metrics_data'] = heap[s.ret]
            /\ last_pass' = Texts(heap[s.ret])]_vars

\* a pass has built its list while the render loop, in its width pass, has
\* written widths into the lines of the current list, whose texts differ
C15_Witness ==
    /\ s.pc = "publish"
    /\ r.pc = "measure" /\ r.list = metrics_data /\ r.idx > 2
    /\ Len(heap[metrics_data]) = 6
    /\ heap[metrics_data][1].size_x # 0
    /\ heap[s.ret][1].size_x = 0
    /\ Texts(heap[s.ret]) # Texts(heap[metrics_data])

HasLabel(text, label) ==
    Len(text) >= Len(label) /\ SubSeq(text, 1, Len(label)) = label

\* dd.mm.yyyy HH:MM:SS
IsDateTime(text) ==
    /\ Len(text) = 19
    /\ SubSeq(text, 3, 3) = "." /\ SubSeq(text, 6, 6) = "."
    /\ SubSeq(text, 11, 11) = " "
    /\ SubSeq(text, 14, 14) = ":" /\ SubSeq(text, 17, 17) = ":"

\* C18: in every reachable state the list metrics_data refers to has no
\* lines, which is so exactly until the first store, or has exactly six
\* lines in the order IPv4, MAC, date and time, CPU/Hotspot temperature,
\* CPU load, RAM.
C18_StoreEmptyOrSixLines ==
    LET list == heap[metrics_data]
    IN  /\ Len(list) \in {0, 6}
        /\ (Len(list) = 0 <=> ~published)
        /\ Len(list) = 6 =>
              /\ HasLabel(list[1].text, "IPv4: ")
              /\ HasLabel(list[2].text, "MAC: ")
              /\ IsDateTime(list[3].text)
              /\ HasLabel(list[4].text, "CPU/Hotspot: ")
              /\ HasLabel(list[5].text, "CPU Load: ")
              /\ HasLabel(list[6].text, "RAM: ")

\* a second six-line list has replaced the first one
C18_Witness ==
    /\ s.pc = "sleep"
    /\ obs.swapped /\ ~obs.identical
    /\ Len(heap[metrics_data]) = 6
    /\ heap[metrics_data][1].text = "IPv4: 192.168.1.10"
    /\ HasLabel(heap[metrics_data][6].text, "RAM: ")

====
